---------------------------- MODULE Spec2Model ----------------------------
(***************************************************************************)
(* A model of the Xone K2 control-surface script (XoneK2.py).              *)
(*                                                                         *)
(* The adapter (class XoneK2) and the part of the host session it reads    *)
(* and writes (tracks, devices, parameters, song) are the state.  Every    *)
(* handler the script registers is an action; a host change made outside   *)
(* the script is an action that changes the host and then runs the         *)
(* listeners the script registered for it, as the host does.               *)
(*                                                                         *)
(* Numbers.  The script computes gains in binary64.  Here a gain is the    *)
(* exact rational the same expression denotes, held as a fixed-point       *)
(* number with denominator YScale * 2^23 (see Lin).  For all 128 inputs    *)
(* of both mappings the binary64 result differs from this rational by      *)
(* less than 2^-50, and it is equal to it wherever the result is one of    *)
(* 0.0, NORMALIZED_ZERO_DB or 1.0.                                         *)
(* The tempo is counted in hundredths of a beat per minute, so that the    *)
(* steps 1.0, 0.1 and 0.01 of the tempo encoders are 100, 10 and 1; a      *)
(* clip's position is counted in beats.                                    *)
(***************************************************************************)
EXTENDS Integers, Sequences, FiniteSets, TLC

\* ------------------------------------------------------------ constants

MIDI_CHANNEL_NUM == 15 - 1
NUM_TRACKS == 4
MUTE_BUTTON_COLOR == "red"
CUE_BUTTON_COLOR == "orange"
EQ_KILL_COLOR == "red"
EQ_CUT_COLOR == "green"

\* from _Framework.InputControlElement (imported with *)
MIDI_NOTE_ON_STATUS == 144
MIDI_NOTE_OFF_STATUS == 128

\* Python's None.  References to host objects are tuples, so None is the
\* empty tuple: it compares unequal to every reference.
None == << >>

\* The longest run of events explored from a constructed adapter.
MaxEvents == 2

Tracks == 0 .. (NUM_TRACKS - 1)
Colors == {"red", "orange", "green"}

\* ------------------------------------------------------------ numbers

\* NORMALIZED_ZERO_DB = 0.85000002384185791015625 = ZeroDbNum / 2^23
ZeroDbNum == 7130317
\* 1.0 - NORMALIZED_ZERO_DB = RestNum / 2^23
RestNum == (2^23) - ZeroDbNum

\* A gain is a natural number of units 1 / (YScale * 2^23), written in two
\* limbs << hi, lo >> of base BigBase with 0 <= lo < BigBase, because the
\* numerators need more than 31 bits.  YScale is the least number that
\* makes every quotient of the two mappings whole:
\* lcm(128, 0.45 * 640, 0.55 * 640).
YScale == 128 * 99
BigBase == 2^12

\* c * m for 0 <= c < 2^23 and 0 <= m < 2^14
BigMul(c, m) ==
    LET ch == c \div BigBase
        cl == c % BigBase
    IN  << ch * m + ((cl * m) \div BigBase), (cl * m) % BigBase >>

BigAdd(x, y) ==
    << x[1] + y[1] + ((x[2] + y[2]) \div BigBase), (x[2] + y[2]) % BigBase >>

BigLeq(x, y) == x[1] < y[1] \/ (x[1] = y[1] /\ x[2] <= y[2])

BigLess(x, y) == BigLeq(x, y) /\ x # y

\* a/YScale * NORMALIZED_ZERO_DB + b/YScale * (1.0 - NORMALIZED_ZERO_DB)
Lin(a, b) == BigAdd(BigMul(ZeroDbNum, a), BigMul(RestNum, b))

ZERO == Lin(0, 0)
NORMALIZED_ZERO_DB == Lin(YScale, 0)
ONE == Lin(YScale, YScale)

\* Positions on a control's axis are in units of 1/XScale: XScale is the
\* least number that makes (value + 1.0) / 128.0, 0.45, 0.1 and 0.55 whole.
XScale == 128 * 5

\* ------------------------------------------------------------ the tables

notes == << "c", "c#", "d", "d#", "e", "f", "f#", "g", "g#", "a", "a#", "b" >>

\* str(num) for -9 .. 9
str(num) ==
    LET digit(d) == << "0", "1", "2", "3", "4", "5", "6", "7", "8", "9" >>[d + 1]
    IN  IF num < 0 THEN "-" \o digit(0 - num) ELSE digit(num)

\* [str(num) for num in range(-1, 10)]
octaves == [k \in 1 .. 11 |-> str(k - 2)]

\* [note + octave for octave in octaves for note in notes]
octave_notes ==
    [k \in 1 .. (Len(octaves) * Len(notes)) |->
        notes[((k - 1) % Len(notes)) + 1] \o octaves[((k - 1) \div Len(notes)) + 1]]

\* The table numbered from 1 (enumerate(octave_notes, 1)): same labels, 1 .. 132.
create_note_to_midi_dict_from_one ==
    [label \in {octave_notes[k] : k \in DOMAIN octave_notes} |->
        CHOOSE i \in 1 .. Len(octave_notes) : octave_notes[i] = label]

\* {octave_notes[i]: i for i in range(len(octave_notes))}: a later i
\* replaces an earlier one with the same label.
create_note_to_midi_dict ==
    [label \in {octave_notes[k] : k \in DOMAIN octave_notes} |->
        CHOOSE i \in 0 .. (Len(octave_notes) - 1) :
            /\ octave_notes[i + 1] = label
            /\ \A j \in (i + 1) .. (Len(octave_notes) - 1) : octave_notes[j + 1] # label]

\* the literal of _create_element_color_dict
element_color_literal(n2m) ==
    [ top_encoder_1 |-> [red |-> n2m["e3"], orange |-> n2m["e6"], green |-> n2m["e9"]],
      top_encoder_2 |-> [red |-> n2m["f3"], orange |-> n2m["f6"], green |-> n2m["f9"]],
      top_encoder_3 |-> [red |-> n2m["f#3"], orange |-> n2m["f#6"], green |-> n2m["f#9"]],
      top_encoder_4 |-> [red |-> n2m["g3"], orange |-> n2m["g6"], green |-> n2m["g9"]],
      pot_switch_1 |-> [red |-> n2m["c3"], orange |-> n2m["c6"], green |-> n2m["c9"]],
      pot_switch_2 |-> [red |-> n2m["c#3"], orange |-> n2m["c#6"], green |-> n2m["c#9"]],
      pot_switch_3 |-> [red |-> n2m["d3"], orange |-> n2m["d6"], green |-> n2m["d9"]],
      pot_switch_4 |-> [red |-> n2m["d#3"], orange |-> n2m["d#6"], green |-> n2m["d#9"]],
      pot_switch_5 |-> [red |-> n2m["g#2"], orange |-> n2m["g#5"], green |-> n2m["g#8"]],
      pot_switch_6 |-> [red |-> n2m["a2"], orange |-> n2m["a5"], green |-> n2m["a8"]],
      pot_switch_7 |-> [red |-> n2m["a#2"], orange |-> n2m["a#5"], green |-> n2m["a#8"]],
      pot_switch_8 |-> [red |-> n2m["b2"], orange |-> n2m["b5"], green |-> n2m["b8"]],
      pot_switch_9 |-> [red |-> n2m["e2"], orange |-> n2m["e5"], green |-> n2m["e8"]],
      pot_switch_10 |-> [red |-> n2m["f2"], orange |-> n2m["f5"], green |-> n2m["f8"]],
      pot_switch_11 |-> [red |-> n2m["f#2"], orange |-> n2m["f#5"], green |-> n2m["f#8"]],
      pot_switch_12 |-> [red |-> n2m["g2"], orange |-> n2m["g5"], green |-> n2m["g8"]],
      matrix_button_a |-> [red |-> n2m["c2"], orange |-> n2m["c5"], green |-> n2m["c8"]],
      matrix_button_b |-> [red |-> n2m["c#2"], orange |-> n2m["c#5"], green |-> n2m["c#8"]],
      matrix_button_c |-> [red |-> n2m["d2"], orange |-> n2m["d5"], green |-> n2m["d8"]],
      matrix_button_d |-> [red |-> n2m["d#2"], orange |-> n2m["d#5"], green |-> n2m["d#8"]],
      matrix_button_e |-> [red |-> n2m["g#1"], orange |-> n2m["g#4"], green |-> n2m["g#7"]],
      matrix_button_f |-> [red |-> n2m["a1"], orange |-> n2m["a4"], green |-> n2m["a7"]],
      matrix_button_g |-> [red |-> n2m["a#1"], orange |-> n2m["a#4"], green |-> n2m["a#7"]],
      matrix_button_h |-> [red |-> n2m["b1"], orange |-> n2m["b4"], green |-> n2m["b7"]],
      matrix_button_i |-> [red |-> n2m["e1"], orange |-> n2m["e4"], green |-> n2m["e7"]],
      matrix_button_j |-> [red |-> n2m["f1"], orange |-> n2m["f4"], green |-> n2m["f7"]],
      matrix_button_k |-> [red |-> n2m["f#1"], orange |-> n2m["f#4"], green |-> n2m["f#7"]],
      matrix_button_l |-> [red |-> n2m["g1"], orange |-> n2m["g4"], green |-> n2m["g7"]],
      matrix_button_m |-> [red |-> n2m["c1"], orange |-> n2m["c4"], green |-> n2m["c7"]],
      matrix_button_n |-> [red |-> n2m["c#1"], orange |-> n2m["c#4"], green |-> n2m["c#7"]],
      matrix_button_o |-> [red |-> n2m["d1"], orange |-> n2m["d4"], green |-> n2m["d7"]],
      matrix_button_p |-> [red |-> n2m["d#1"], orange |-> n2m["d#4"], green |-> n2m["d#7"]],
      layer_button |-> [red |-> n2m["c0"], orange |-> n2m["e0"], green |-> n2m["g#0"]],
      exit_setup_button |-> [red |-> n2m["d#0"], orange |-> n2m["g0"], green |-> n2m["b0"]] ]

\* The literal with 'g#9' (128) for the green of top_encoder_4.
create_element_color_dict_g_sharp_9(n2m) ==
    [element_color_literal(n2m) EXCEPT !["top_encoder_4"]["green"] = n2m["g#9"]]

create_element_color_dict(n2m) == element_color_literal(n2m)

\* ------------------------------------------------------------ layout
\* setup_data_structures: the LED element of each per-track control.  The
\* lists are Python lists, so track index i is position i + 1 here.

mute_elements ==
    << "matrix_button_i", "matrix_button_j", "matrix_button_k", "matrix_button_l" >>
cue_elements ==
    << "matrix_button_a", "matrix_button_b", "matrix_button_c", "matrix_button_d" >>
eq_kill_elements ==
    << "matrix_button_e", "matrix_button_f", "matrix_button_g", "matrix_button_h" >>
track_stop_elements ==
    << "matrix_button_m", "matrix_button_n", "matrix_button_o", "matrix_button_p" >>
hi_eq_cut_elements ==
    << "pot_switch_1", "pot_switch_2", "pot_switch_3", "pot_switch_4" >>
mid_eq_cut_elements ==
    << "pot_switch_5", "pot_switch_6", "pot_switch_7", "pot_switch_8" >>
low_eq_cut_elements ==
    << "pot_switch_9", "pot_switch_10", "pot_switch_11", "pot_switch_12" >>

\* ------------------------------------------------------------ the host
\* The devices a track can hold.  The script reads a device's name and the
\* names and values of its parameters, nothing else.  eqA and eqB are EQ
\* Three devices; rack is a device the user named 'EQ Three' that has none
\* of its parameters but 'Device On'; comp is a device of another name.

DeviceIds == {"eqA", "eqB", "rack", "comp"}

DeviceName(d) == IF d = "comp" THEN "Compressor" ELSE "EQ Three"

OnParams == {"Device On", "HighOn", "MidOn", "LowOn"}
GainParams == {"GainHi", "GainMid", "GainLo"}

DeviceParameters(d) ==
    IF d \in {"eqA", "eqB"} THEN OnParams \cup GainParams ELSE {"Device On"}

\* A device is << track, id >>, a parameter << track, id, name >>.
\* the clip slots of a track (track.clip_slots), each holding a clip
ClipSlots == 0 .. 1

OnRefs ==
    {r \in Tracks \X DeviceIds \X OnParams : r[3] \in DeviceParameters(r[2])}
GainRefs ==
    {r \in Tracks \X DeviceIds \X GainParams : r[3] \in DeviceParameters(r[2])}

VARIABLES
    \* the adapter (self)
    note_to_midi, element_color_to_midi,
    eq3_devices, eq3_device_on_params,
    eq3_hi_cut_params, eq3_mid_cut_params, eq3_low_cut_params,
    eq3_hi_gain_params, eq3_mid_gain_params, eq3_low_gain_params,
    coarse_encoder_is_pushed, fine_encoder_pushed, scrobble_encoder_pushed,
    \* the host session
    mute,             \* track.mute
    solo,             \* track.solo
    volume,           \* track.mixer_device.volume.value
    devices,          \* track.devices, in order
    on_value,         \* value of the on/off parameters, 0 or 1
    gain_value,       \* value of the gain parameters
    value_listeners,  \* how many redraw listeners the script added to a parameter
    nudge_up, nudge_down,
    tempo,            \* song.tempo, in hundredths of a beat per minute
    playing_slot_index, \* track.playing_slot_index
    position,         \* clip.position of a track's clip slot, in beats
    \* what the run has shown
    sent,             \* the messages given to send_midi by the last step, in order
    led,              \* note -> status byte of the last message sent for it
    connected,        \* FALSE once the host has called disconnect()
    last_op,          \* the handler the last step ran, with its arguments
    nevents,          \* steps taken since construction
    probe             \* SpecMix: the one continuous control that is moved

tableVars == << note_to_midi, element_color_to_midi >>
cutVars == << eq3_device_on_params, eq3_hi_cut_params, eq3_mid_cut_params,
              eq3_low_cut_params >>
gainVars == << eq3_hi_gain_params, eq3_mid_gain_params, eq3_low_gain_params >>
bindingVars == << eq3_devices, cutVars, gainVars >>
pushVars == << coarse_encoder_is_pushed, fine_encoder_pushed,
               scrobble_encoder_pushed >>
adapterVars == << tableVars, bindingVars, pushVars >>
toggleVars == << mute, solo, on_value >>
transportVars == << tempo, playing_slot_index, position >>
hostVars == << toggleVars, volume, devices, gain_value, value_listeners,
               nudge_up, nudge_down, transportVars >>
vars == << adapterVars, hostVars, sent, led, connected, last_op, nevents, probe >>

\* ------------------------------------------------------------ LED output

\* light_up_element with the channel left out of the status byte
light_up_element_no_channel(element_name, color) ==
    LET status == MIDI_NOTE_ON_STATUS
        note == element_color_to_midi[element_name][color]
        velocity == 127
    IN  << status, note, velocity >>

light_up_element(element_name, color) ==
    LET status == MIDI_NOTE_ON_STATUS + MIDI_CHANNEL_NUM
        note == element_color_to_midi[element_name][color]
        velocity == 127
    IN  << status, note, velocity >>

dim_element(element_name, color) ==
    LET status == MIDI_NOTE_OFF_STATUS + MIDI_CHANNEL_NUM
        note == element_color_to_midi[element_name][color]
        velocity == 127
    IN  << status, note, velocity >>

\* The order of a Python 2 dict's items is that of its hash table; the
\* order below is the order of the literal.  Nothing checked here rests on
\* the order of the elements within one pass.
ElementOrder ==
    << "top_encoder_1", "top_encoder_2", "top_encoder_3", "top_encoder_4",
       "pot_switch_1", "pot_switch_2", "pot_switch_3", "pot_switch_4",
       "pot_switch_5", "pot_switch_6", "pot_switch_7", "pot_switch_8",
       "pot_switch_9", "pot_switch_10", "pot_switch_11", "pot_switch_12",
       "matrix_button_a", "matrix_button_b", "matrix_button_c", "matrix_button_d",
       "matrix_button_e", "matrix_button_f", "matrix_button_g", "matrix_button_h",
       "matrix_button_i", "matrix_button_j", "matrix_button_k", "matrix_button_l",
       "matrix_button_m", "matrix_button_n", "matrix_button_o", "matrix_button_p",
       "layer_button", "exit_setup_button" >>

dim_all_elements ==
    LET pass(color) == [k \in 1 .. Len(ElementOrder) |-> dim_element(ElementOrder[k], color)]
    IN  pass("red") \o pass("orange") \o pass("green")

\* draw_mute_button lighting the button of a muted track
draw_mute_button_inverted(index) ==
    LET mute_element == mute_elements[index + 1]
    IN  IF mute[index]
        THEN light_up_element(mute_element, MUTE_BUTTON_COLOR)
        ELSE dim_element(mute_element, MUTE_BUTTON_COLOR)

draw_mute_button(index) ==
    LET mute_element == mute_elements[index + 1]
    IN  IF ~mute[index]
        THEN light_up_element(mute_element, MUTE_BUTTON_COLOR)
        ELSE dim_element(mute_element, MUTE_BUTTON_COLOR)

draw_cue_button(index) ==
    LET cue_element == cue_elements[index + 1]
    IN  IF solo[index]
        THEN light_up_element(cue_element, CUE_BUTTON_COLOR)
        ELSE dim_element(cue_element, CUE_BUTTON_COLOR)

draw_eq_kill(index) ==
    LET eq_kill_element == eq_kill_elements[index + 1]
        device_on_param == eq3_device_on_params[index]
    IN  IF device_on_param # None /\ on_value[device_on_param] = 1
        THEN light_up_element(eq_kill_element, EQ_KILL_COLOR)
        ELSE dim_element(eq_kill_element, EQ_KILL_COLOR)

draw_hi_eq_cut(index) ==
    LET hi_cut_element == hi_eq_cut_elements[index + 1]
        hi_cut == eq3_hi_cut_params[index]
    IN  IF hi_cut # None /\ on_value[hi_cut] = 1
        THEN light_up_element(hi_cut_element, EQ_CUT_COLOR)
        ELSE dim_element(hi_cut_element, EQ_CUT_COLOR)

draw_mid_eq_cut(index) ==
    LET mid_cut_element == mid_eq_cut_elements[index + 1]
        mid_cut == eq3_mid_cut_params[index]
    IN  IF mid_cut # None /\ on_value[mid_cut] = 1
        THEN light_up_element(mid_cut_element, EQ_CUT_COLOR)
        ELSE dim_element(mid_cut_element, EQ_CUT_COLOR)

draw_low_eq_cut(index) ==
    LET low_cut_element == low_eq_cut_elements[index + 1]
        low_cut == eq3_low_cut_params[index]
    IN  IF low_cut # None /\ on_value[low_cut] = 1
        THEN light_up_element(low_cut_element, EQ_CUT_COLOR)
        ELSE dim_element(low_cut_element, EQ_CUT_COLOR)

\* The three band-cut buttons share one handler; initialize_controller_components
\* binds each to its list of parameters and its draw function.
Bands == {"hi", "mid", "low"}

cut_params(band) ==
    CASE band = "hi" -> eq3_hi_cut_params
      [] band = "mid" -> eq3_mid_cut_params
      [] band = "low" -> eq3_low_cut_params

draw_button(band, index) ==
    CASE band = "hi" -> draw_hi_eq_cut(index)
      [] band = "mid" -> draw_mid_eq_cut(index)
      [] band = "low" -> draw_low_eq_cut(index)

gain_params(band) ==
    CASE band = "hi" -> eq3_hi_gain_params
      [] band = "mid" -> eq3_mid_gain_params
      [] band = "low" -> eq3_low_gain_params

\* The listener update_devices_bindings adds to an on/off parameter: the
\* draw function of that parameter's button, for the parameter's track.
value_listener(param) ==
    CASE param[3] = "Device On" -> draw_eq_kill(param[1])
      [] param[3] = "HighOn" -> draw_hi_eq_cut(param[1])
      [] param[3] = "MidOn" -> draw_mid_eq_cut(param[1])
      [] param[3] = "LowOn" -> draw_low_eq_cut(param[1])

Repeat(n, m) == [k \in 1 .. n |-> m]

\* led after the messages msgs: for a note among them, the status byte of
\* the last one that carries it.
LedAfter(l, msgs) ==
    IF msgs = << >> THEN l ELSE
    LET noted == {msgs[k][2] : k \in DOMAIN msgs}
        last(n) == CHOOSE k \in DOMAIN msgs :
                      /\ msgs[k][2] = n
                      /\ \A j \in DOMAIN msgs : msgs[j][2] = n => j <= k
    IN  [n \in noted \cup DOMAIN l |-> IF n \in noted THEN msgs[last(n)][1] ELSE l[n]]

\* ------------------------------------------------------------ bindings

find_eq3_device(index, track_devices) ==
    LET eq3 == SelectSeq(track_devices, LAMBDA device : DeviceName(device) = "EQ Three")
    IN  IF Len(eq3) > 0 THEN << index, eq3[1] >> ELSE None

get_eq3_parameter(eq3, param_name) ==
    IF param_name \in DeviceParameters(eq3[2])
    THEN << eq3[1], eq3[2], param_name >>
    ELSE None

\* What update_devices_bindings(index) stores for an on/off parameter and
\* for a gain parameter.  With no EQ Three on the track the four on/off
\* bindings become None; the three gain bindings are left as they were.
bound_on_param(index, track_devices, param_name) ==
    LET eq3 == find_eq3_device(index, track_devices)
    IN  IF eq3 # None THEN get_eq3_parameter(eq3, param_name) ELSE None

bound_gain_param(index, track_devices, param_name, old) ==
    LET eq3 == find_eq3_device(index, track_devices)
    IN  IF eq3 # None THEN get_eq3_parameter(eq3, param_name) ELSE old

\* The parameters update_devices_bindings(index) adds a listener to.
listened_params(index, track_devices) ==
    {bound_on_param(index, track_devices, n) : n \in OnParams} \ {None}

\* Runs in the host state the step has reached (devices').
update_devices_bindings(index) ==
    LET track_devices == devices'[index]
    IN  /\ eq3_devices' =
              [eq3_devices EXCEPT ![index] = find_eq3_device(index, track_devices)]
        /\ eq3_device_on_params' = [eq3_device_on_params EXCEPT
              ![index] = bound_on_param(index, track_devices, "Device On")]
        /\ eq3_hi_cut_params' = [eq3_hi_cut_params EXCEPT
              ![index] = bound_on_param(index, track_devices, "HighOn")]
        /\ eq3_mid_cut_params' = [eq3_mid_cut_params EXCEPT
              ![index] = bound_on_param(index, track_devices, "MidOn")]
        /\ eq3_low_cut_params' = [eq3_low_cut_params EXCEPT
              ![index] = bound_on_param(index, track_devices, "LowOn")]
        /\ eq3_hi_gain_params' = [eq3_hi_gain_params EXCEPT
              ![index] = bound_gain_param(index, track_devices, "GainHi", @)]
        /\ eq3_mid_gain_params' = [eq3_mid_gain_params EXCEPT
              ![index] = bound_gain_param(index, track_devices, "GainMid", @)]
        /\ eq3_low_gain_params' = [eq3_low_gain_params EXCEPT
              ![index] = bound_gain_param(index, track_devices, "GainLo", @)]
        /\ value_listeners' =
              [r \in OnRefs |-> value_listeners[r]
                  + (IF r \in listened_params(index, track_devices) THEN 1 ELSE 0)]
        /\ UNCHANGED << tableVars, pushVars, toggleVars, volume, gain_value,
                        nudge_up, nudge_down, connected, transportVars >>
        /\ sent' = << draw_eq_kill(index)', draw_hi_eq_cut(index)',
                      draw_mid_eq_cut(index)', draw_low_eq_cut(index)' >>

\* ------------------------------------------------------------ mappings

\* new_volume with value / 128.0 for the normalized value
new_volume_unshifted(value) ==
    LET normalized_fader_value == value * (XScale \div 128)
    IN  Lin((normalized_fader_value * YScale) \div XScale, 0)

\* on_volume_fader_move: normalized_fader_value * NORMALIZED_ZERO_DB
new_volume(value) ==
    LET normalized_fader_value == (value + 1) * (XScale \div 128)
    IN  Lin((normalized_fader_value * YScale) \div XScale, 0)

\* new_gain_value with dead_zone_x_range = 0.2 where the dead zone is tested
new_gain_value_wide_dead_zone(value) ==
    LET normalized_knob_value == (value + 1) * (XScale \div 128)
        dead_zone_x_range == XScale \div 10
        lower_x_range == (XScale \div 2) - (dead_zone_x_range \div 2)
        upper_x_range == (XScale \div 2) + (dead_zone_x_range \div 2)
    IN  IF normalized_knob_value <= lower_x_range
        THEN Lin(normalized_knob_value * (YScale \div lower_x_range), 0)
        ELSE IF normalized_knob_value <= lower_x_range + (2 * dead_zone_x_range)
        THEN NORMALIZED_ZERO_DB
        ELSE LET shifted_knob_value == normalized_knob_value - lower_x_range
             IN  Lin(YScale, shifted_knob_value * (YScale \div upper_x_range))

\* new_gain_value with the left segment measured from lower_x_range down
new_gain_value_falling(value) ==
    LET normalized_knob_value == (value + 1) * (XScale \div 128)
        dead_zone_x_range == XScale \div 10
        lower_x_range == (XScale \div 2) - (dead_zone_x_range \div 2)
        upper_x_range == (XScale \div 2) + (dead_zone_x_range \div 2)
    IN  IF normalized_knob_value <= lower_x_range
        THEN Lin((lower_x_range - normalized_knob_value) * (YScale \div lower_x_range), 0)
        ELSE IF normalized_knob_value <= lower_x_range + dead_zone_x_range
        THEN NORMALIZED_ZERO_DB
        ELSE LET shifted_knob_value == normalized_knob_value - lower_x_range
             IN  Lin(YScale, shifted_knob_value * (YScale \div upper_x_range))

\* on_eq_knob_turn: the three segments
new_gain_value(value) ==
    LET normalized_knob_value == (value + 1) * (XScale \div 128)
        dead_zone_x_range == XScale \div 10
        lower_x_range == (XScale \div 2) - (dead_zone_x_range \div 2)
        upper_x_range == (XScale \div 2) + (dead_zone_x_range \div 2)
    IN  IF normalized_knob_value <= lower_x_range
        THEN \* scaled_knob_value * lower_y_max
             Lin(normalized_knob_value * (YScale \div lower_x_range), 0)
        ELSE IF normalized_knob_value <= lower_x_range + dead_zone_x_range
        THEN NORMALIZED_ZERO_DB
        ELSE \* lower_y_max + scaled_knob_value * upper_y_range
             LET shifted_knob_value == normalized_knob_value - lower_x_range
             IN  Lin(YScale, shifted_knob_value * (YScale \div upper_x_range))

Abs(x) == IF x < 0 THEN 0 - x ELSE x

\* ------------------------------------------------------------ handlers

on_nudge_back(value) ==
    /\ nudge_down' = (value = 127)
    /\ sent' = << IF value = 127 THEN light_up_element("layer_button", "orange")
                  ELSE dim_element("layer_button", "orange") >>
    /\ UNCHANGED << adapterVars, toggleVars, volume, devices, gain_value,
                    value_listeners, nudge_up, connected, transportVars >>

\* on_nudge_up setting the flag whatever the value
on_nudge_up_latched(value) ==
    /\ nudge_up' = TRUE
    /\ sent' = << IF value = 127 THEN light_up_element("exit_setup_button", "orange")
                  ELSE dim_element("exit_setup_button", "orange") >>
    /\ UNCHANGED << adapterVars, toggleVars, volume, devices, gain_value,
                    value_listeners, nudge_down, connected, transportVars >>

on_nudge_up(value) ==
    /\ nudge_up' = (value = 127)
    /\ sent' = << IF value = 127 THEN light_up_element("exit_setup_button", "orange")
                  ELSE dim_element("exit_setup_button", "orange") >>
    /\ UNCHANGED << adapterVars, toggleVars, volume, devices, gain_value,
                    value_listeners, nudge_down, connected, transportVars >>

\* The tempo is counted in hundredths: 1.0, 0.1 and 0.01 are 100, 10 and 1.
\* on_coarse_tempo_change choosing its step by the fine encoder's flag
on_coarse_tempo_change_fine_flag(value) ==
    /\ tempo' = IF value = 1
                THEN (IF fine_encoder_pushed THEN tempo + 10 ELSE tempo + 100)
                ELSE (IF fine_encoder_pushed THEN tempo - 10 ELSE tempo - 100)
    /\ sent' = << >>
    /\ UNCHANGED << adapterVars, toggleVars, volume, devices, gain_value,
                    value_listeners, nudge_up, nudge_down, connected,
                    playing_slot_index, position >>

on_coarse_tempo_change(value) ==
    /\ tempo' = IF value = 1
                THEN (IF coarse_encoder_is_pushed THEN tempo + 10 ELSE tempo + 100)
                ELSE (IF coarse_encoder_is_pushed THEN tempo - 10 ELSE tempo - 100)
    /\ sent' = << >>
    /\ UNCHANGED << adapterVars, toggleVars, volume, devices, gain_value,
                    value_listeners, nudge_up, nudge_down, connected,
                    playing_slot_index, position >>

on_coarse_encoder_push(value) ==
    /\ coarse_encoder_is_pushed' = (value = 127)
    /\ sent' = << >>
    /\ UNCHANGED << tableVars, bindingVars, fine_encoder_pushed,
                    scrobble_encoder_pushed, hostVars, connected >>

on_fine_tempo_change(value) ==
    /\ tempo' = IF value = 1
                THEN (IF fine_encoder_pushed THEN tempo + 1 ELSE tempo + 10)
                ELSE (IF fine_encoder_pushed THEN tempo - 1 ELSE tempo - 10)
    /\ sent' = << >>
    /\ UNCHANGED << adapterVars, toggleVars, volume, devices, gain_value,
                    value_listeners, nudge_up, nudge_down, connected,
                    playing_slot_index, position >>

on_fine_encoder_push(value) ==
    /\ fine_encoder_pushed' = (value = 127)
    /\ sent' = << >>
    /\ UNCHANGED << tableVars, bindingVars, coarse_encoder_is_pushed,
                    scrobble_encoder_pushed, hostVars, connected >>

\* Setting track.mute runs the mute listener (draw_mute_button) before the
\* handler goes on to draw the button itself.
on_mute_button_push(index, value) ==
    /\ mute' = IF value = 127 THEN [mute EXCEPT ![index] = ~@] ELSE mute
    /\ UNCHANGED << adapterVars, solo, on_value, volume, devices, gain_value,
                    value_listeners, nudge_up, nudge_down, connected,
                    transportVars >>
    /\ sent' = (IF value = 127 THEN << draw_mute_button(index)' >> ELSE << >>)
               \o << draw_mute_button(index)' >>

\* on_cue_button_push without the test of the value
on_cue_button_push_any_value(index, value) ==
    /\ solo' = [solo EXCEPT ![index] = ~@]
    /\ UNCHANGED << adapterVars, mute, on_value, volume, devices, gain_value,
                    value_listeners, nudge_up, nudge_down, connected,
                    transportVars >>
    /\ sent' = << draw_cue_button(index)', draw_cue_button(index)' >>

on_cue_button_push(index, value) ==
    /\ solo' = IF value = 127 THEN [solo EXCEPT ![index] = ~@] ELSE solo
    /\ UNCHANGED << adapterVars, mute, on_value, volume, devices, gain_value,
                    value_listeners, nudge_up, nudge_down, connected,
                    transportVars >>
    /\ sent' = (IF value = 127 THEN << draw_cue_button(index)' >> ELSE << >>)
               \o << draw_cue_button(index)' >>

on_track_stop_button_push(index, value) ==
    LET stop_element == track_stop_elements[index + 1]
    IN  /\ sent' = << IF value = 127 THEN light_up_element(stop_element, "red")
                      ELSE dim_element(stop_element, "red") >>
        /\ UNCHANGED << adapterVars, hostVars, connected >>

on_volume_fader_move(index, value) ==
    /\ volume' = [volume EXCEPT ![index] = new_volume(value)]
    /\ sent' = << >>
    /\ UNCHANGED << adapterVars, toggleVars, devices, gain_value,
                    value_listeners, nudge_up, nudge_down, connected,
                    transportVars >>

on_eq_kill_button_push(index, value) ==
    LET eq3_device_on == eq3_device_on_params[index]
        toggled == eq3_device_on # None /\ value = 127
    IN  /\ on_value' = IF toggled
                       THEN [on_value EXCEPT ![eq3_device_on] = Abs(@ - 1)]
                       ELSE on_value
        /\ UNCHANGED << adapterVars, mute, solo, volume, devices, gain_value,
                        value_listeners, nudge_up, nudge_down, connected,
                        transportVars >>
        /\ sent' = (IF toggled
                    THEN Repeat(value_listeners[eq3_device_on],
                                value_listener(eq3_device_on)')
                    ELSE << >>)
                   \o << draw_eq_kill(index)' >>

on_eq_cut_button_push(band, index, value) ==
    LET eq3_cut_param == cut_params(band)[index]
        toggled == eq3_cut_param # None /\ value = 127
    IN  /\ on_value' = IF toggled
                       THEN [on_value EXCEPT ![eq3_cut_param] = Abs(@ - 1)]
                       ELSE on_value
        /\ UNCHANGED << adapterVars, mute, solo, volume, devices, gain_value,
                        value_listeners, nudge_up, nudge_down, connected,
                        transportVars >>
        /\ sent' = (IF toggled
                    THEN Repeat(value_listeners[eq3_cut_param],
                                value_listener(eq3_cut_param)')
                    ELSE << >>)
                   \o << draw_button(band, index)' >>

on_eq_knob_turn(band, index, value) ==
    LET gain_param == gain_params(band)[index]
    IN  /\ gain_value' = IF gain_param # None
                         THEN [gain_value EXCEPT ![gain_param] = new_gain_value(value)]
                         ELSE gain_value
        /\ sent' = << >>
        /\ UNCHANGED << adapterVars, toggleVars, volume, devices,
                        value_listeners, nudge_up, nudge_down, connected,
                        transportVars >>

on_scrobble_encoder_push(index, value) ==
    /\ scrobble_encoder_pushed' =
          [scrobble_encoder_pushed EXCEPT ![index] = IF value = 127 THEN TRUE ELSE FALSE]
    /\ sent' = << >>
    /\ UNCHANGED << tableVars, bindingVars, coarse_encoder_is_pushed,
                    fine_encoder_pushed, hostVars, connected >>

\* on_scrobble_change reading the held flag of the first track
on_scrobble_change_first_flag(index, value) ==
    LET playback_index == playing_slot_index[index]
        encoder_pushed == scrobble_encoder_pushed[0]
        num_beats == IF encoder_pushed THEN 1 ELSE 4
        playback_offset == IF value = 127 THEN 0 - num_beats ELSE num_beats
    IN  /\ position' = IF playback_index > -1
                       THEN [position EXCEPT ![<< index, playback_index >>] =
                                @ + playback_offset]
                       ELSE position
        /\ sent' = << >>
        /\ UNCHANGED << adapterVars, toggleVars, volume, devices, gain_value,
                        value_listeners, nudge_up, nudge_down, connected,
                        tempo, playing_slot_index >>

on_scrobble_change(index, value) ==
    LET playback_index == playing_slot_index[index]
        encoder_pushed == scrobble_encoder_pushed[index]
        num_beats == IF encoder_pushed THEN 1 ELSE 4
        playback_offset == IF value = 127 THEN 0 - num_beats ELSE num_beats
    IN  /\ position' = IF playback_index > -1
                       THEN [position EXCEPT ![<< index, playback_index >>] =
                                @ + playback_offset]
                       ELSE position
        /\ sent' = << >>
        /\ UNCHANGED << adapterVars, toggleVars, volume, devices, gain_value,
                        value_listeners, nudge_up, nudge_down, connected,
                        tempo, playing_slot_index >>

\* A draw handler run on its own: by a notification that changed nothing.
DrawOps == {"draw_mute_button", "draw_cue_button", "draw_eq_kill",
            "draw_hi_eq_cut", "draw_mid_eq_cut", "draw_low_eq_cut"}

draw_message(op, index) ==
    CASE op = "draw_mute_button" -> draw_mute_button(index)
      [] op = "draw_cue_button" -> draw_cue_button(index)
      [] op = "draw_eq_kill" -> draw_eq_kill(index)
      [] op = "draw_hi_eq_cut" -> draw_hi_eq_cut(index)
      [] op = "draw_mid_eq_cut" -> draw_mid_eq_cut(index)
      [] op = "draw_low_eq_cut" -> draw_low_eq_cut(index)

\* a draw handler that toggles what it draws, as the push handlers do
draw_toggling(op, index) ==
    /\ mute' = IF op = "draw_mute_button" THEN [mute EXCEPT ![index] = ~@] ELSE mute
    /\ solo' = IF op = "draw_cue_button" THEN [solo EXCEPT ![index] = ~@] ELSE solo
    /\ UNCHANGED << adapterVars, on_value, volume, devices, gain_value,
                    value_listeners, nudge_up, nudge_down, connected,
                    transportVars >>
    /\ sent' = << draw_message(op, index)' >>

draw(op, index) ==
    /\ sent' = << draw_message(op, index) >>
    /\ UNCHANGED << adapterVars, hostVars, connected >>

disconnect ==
    /\ connected
    /\ connected' = FALSE
    /\ sent' = dim_all_elements
    /\ UNCHANGED << adapterVars, hostVars >>

\* ------------------------------------------------------------ host changes
\* A change made in the host, followed by the listeners the script added
\* for it (add_mute_listener, add_solo_listener, add_value_listener,
\* add_devices_listener).

host_mute_change(index) ==
    /\ mute' = [mute EXCEPT ![index] = ~@]
    /\ UNCHANGED << adapterVars, solo, on_value, volume, devices, gain_value,
                    value_listeners, nudge_up, nudge_down, connected,
                    transportVars >>
    /\ sent' = << draw_mute_button(index)' >>

host_solo_change(index) ==
    /\ solo' = [solo EXCEPT ![index] = ~@]
    /\ UNCHANGED << adapterVars, mute, on_value, volume, devices, gain_value,
                    value_listeners, nudge_up, nudge_down, connected,
                    transportVars >>
    /\ sent' = << draw_cue_button(index)' >>

OnTrack(index, d) == \E k \in DOMAIN devices[index] : devices[index][k] = d

host_param_change(param) ==
    /\ OnTrack(param[1], param[2])
    /\ on_value' = [on_value EXCEPT ![param] = Abs(@ - 1)]
    /\ UNCHANGED << adapterVars, mute, solo, volume, devices, gain_value,
                    value_listeners, nudge_up, nudge_down, connected,
                    transportVars >>
    /\ sent' = Repeat(value_listeners[param], value_listener(param)')

InsertAt(s, k, d) == SubSeq(s, 1, k - 1) \o << d >> \o SubSeq(s, k, Len(s))

host_device_insert(index, d, k) ==
    /\ ~OnTrack(index, d)
    /\ k \in 1 .. (Len(devices[index]) + 1)
    /\ devices' = [devices EXCEPT ![index] = InsertAt(@, k, d)]
    /\ update_devices_bindings(index)

host_device_remove(index, d) ==
    /\ OnTrack(index, d)
    /\ devices' = [devices EXCEPT ![index] = SelectSeq(@, LAMBDA x : x # d)]
    /\ update_devices_bindings(index)

\* ------------------------------------------------------------ construction

\* The host sessions a run starts from.  off: the on/off parameters that
\* are 0.0 when the script is loaded; every other one is 1.0.
InitHosts ==
    { \* an empty session
      [mute |-> [i \in Tracks |-> FALSE], solo |-> [i \in Tracks |-> FALSE],
       devices |-> [i \in Tracks |-> << >>], off |-> {},
       tempo |-> 12000, playing |-> [i \in Tracks |-> -1]],
      \* an EQ Three on every track
      [mute |-> [i \in Tracks |-> i = 1], solo |-> [i \in Tracks |-> i = 2],
       devices |-> [i \in Tracks |-> << "eqA" >>], off |-> {},
       tempo |-> 12800, playing |-> [i \in Tracks |-> IF i = 3 THEN 1 ELSE 0]],
      \* a mixed session
      [mute |-> [i \in Tracks |-> i \in {0, 3}], solo |-> [i \in Tracks |-> i = 1],
       devices |-> [i \in Tracks |->
            CASE i = 0 -> << "comp", "eqA" >>
              [] i = 1 -> << "rack" >>
              [] i = 2 -> << "eqB", "eqA" >>
              [] OTHER -> << >>],
       off |-> {<< 0, "eqA", "LowOn" >>, << 2, "eqB", "Device On" >>},
       tempo |-> 17450,
       playing |-> [i \in Tracks |->
            CASE i = 0 -> 1
              [] i = 1 -> -1
              [] i = 2 -> -2
              [] OTHER -> 0]] }

MixHost ==
    [mute |-> [i \in Tracks |-> FALSE], solo |-> [i \in Tracks |-> FALSE],
     devices |-> [i \in Tracks |-> << "eqA" >>], off |-> {},
     tempo |-> 12000, playing |-> [i \in Tracks |-> -1]]

RECURSIVE Flatten(_, _)
Flatten(f, i) == IF i >= NUM_TRACKS THEN << >> ELSE f[i] \o Flatten(f, i + 1)

\* The messages initialize_controller_components sends, loop by loop.  The
\* loop over the high-cut buttons draws the mid-cut button.
initialize_controller_components_sent ==
    Flatten([i \in Tracks |-> << draw_eq_kill(i), draw_hi_eq_cut(i),
                                 draw_mid_eq_cut(i), draw_low_eq_cut(i) >>], 0)
    \o Flatten([i \in Tracks |-> << draw_mute_button(i) >>], 0)
    \o Flatten([i \in Tracks |-> << draw_cue_button(i) >>], 0)
    \o Flatten([i \in Tracks |-> << draw_mid_eq_cut(i) >>], 0)
    \o Flatten([i \in Tracks |-> << draw_mid_eq_cut(i) >>], 0)
    \o Flatten([i \in Tracks |-> << draw_low_eq_cut(i) >>], 0)

Op(op, band, index, value) ==
    [op |-> op, band |-> band, index |-> index, value |-> value]

\* __init__ on the host session h
Construct(h) ==
    /\ note_to_midi = create_note_to_midi_dict
    /\ element_color_to_midi = create_element_color_dict(note_to_midi)
    /\ mute = h.mute
    /\ solo = h.solo
    /\ devices = h.devices
    /\ volume = [i \in Tracks |-> NORMALIZED_ZERO_DB]
    /\ on_value = [r \in OnRefs |-> IF r \in h.off THEN 0 ELSE 1]
    /\ gain_value = [r \in GainRefs |-> NORMALIZED_ZERO_DB]
    /\ nudge_up = FALSE
    /\ nudge_down = FALSE
    /\ tempo = h.tempo
    /\ playing_slot_index = h.playing
    /\ position = [c \in Tracks \X ClipSlots |-> 0]
    /\ coarse_encoder_is_pushed = FALSE
    /\ fine_encoder_pushed = FALSE
    /\ scrobble_encoder_pushed = [i \in Tracks |-> FALSE]
    /\ eq3_devices = [i \in Tracks |-> find_eq3_device(i, devices[i])]
    /\ eq3_device_on_params =
          [i \in Tracks |-> bound_on_param(i, devices[i], "Device On")]
    /\ eq3_hi_cut_params = [i \in Tracks |-> bound_on_param(i, devices[i], "HighOn")]
    /\ eq3_mid_cut_params = [i \in Tracks |-> bound_on_param(i, devices[i], "MidOn")]
    /\ eq3_low_cut_params = [i \in Tracks |-> bound_on_param(i, devices[i], "LowOn")]
    /\ eq3_hi_gain_params =
          [i \in Tracks |-> bound_gain_param(i, devices[i], "GainHi", None)]
    /\ eq3_mid_gain_params =
          [i \in Tracks |-> bound_gain_param(i, devices[i], "GainMid", None)]
    /\ eq3_low_gain_params =
          [i \in Tracks |-> bound_gain_param(i, devices[i], "GainLo", None)]
    /\ value_listeners =
          [r \in OnRefs |->
              IF r \in listened_params(r[1], devices[r[1]]) THEN 1 ELSE 0]
    /\ sent = initialize_controller_components_sent
    /\ led = LedAfter(<< >>, sent)
    /\ connected = TRUE
    /\ last_op = Op("__init__", "", -1, -1)
    /\ nevents = 0

Init ==
    /\ \E h \in InitHosts : Construct(h)
    /\ probe = None

\* ------------------------------------------------------------ events

ButtonValues == {0, 127}
KnobSamples == {0, 63, 127}
\* an encoder's ticks: 1 = right turn, 127 = left turn
EncoderValues == {1, 127}

\* One event delivered by the host: the handler runs to its end.
Step(handler, op) ==
    /\ nevents < MaxEvents
    /\ handler
    /\ led' = LedAfter(led, sent')
    /\ last_op' = op
    /\ nevents' = nevents + 1
    /\ UNCHANGED probe

NudgeBack == \E v \in ButtonValues :
    Step(on_nudge_back(v), Op("on_nudge_back", "", -1, v))
NudgeUp == \E v \in ButtonValues :
    Step(on_nudge_up(v), Op("on_nudge_up", "", -1, v))
CoarseTempo == \E v \in EncoderValues :
    Step(on_coarse_tempo_change(v), Op("on_coarse_tempo_change", "", -1, v))
CoarsePush == \E v \in ButtonValues :
    Step(on_coarse_encoder_push(v), Op("on_coarse_encoder_push", "", -1, v))
FineTempo == \E v \in EncoderValues :
    Step(on_fine_tempo_change(v), Op("on_fine_tempo_change", "", -1, v))
FinePush == \E v \in ButtonValues :
    Step(on_fine_encoder_push(v), Op("on_fine_encoder_push", "", -1, v))
MuteButton == \E i \in Tracks, v \in ButtonValues :
    Step(on_mute_button_push(i, v), Op("on_mute_button_push", "", i, v))
CueButton == \E i \in Tracks, v \in ButtonValues :
    Step(on_cue_button_push(i, v), Op("on_cue_button_push", "", i, v))
TrackStopButton == \E i \in Tracks, v \in ButtonValues :
    Step(on_track_stop_button_push(i, v), Op("on_track_stop_button_push", "", i, v))
EqKillButton == \E i \in Tracks, v \in ButtonValues :
    Step(on_eq_kill_button_push(i, v), Op("on_eq_kill_button_push", "", i, v))
EqCutButton == \E b \in Bands, i \in Tracks, v \in ButtonValues :
    Step(on_eq_cut_button_push(b, i, v), Op("on_eq_cut_button_push", b, i, v))
VolumeFader == \E i \in Tracks, v \in KnobSamples :
    Step(on_volume_fader_move(i, v), Op("on_volume_fader_move", "", i, v))
EqKnob == \E b \in Bands, i \in Tracks, v \in KnobSamples :
    Step(on_eq_knob_turn(b, i, v), Op("on_eq_knob_turn", b, i, v))
ScrobblePush == \E i \in Tracks, v \in ButtonValues :
    Step(on_scrobble_encoder_push(i, v), Op("on_scrobble_encoder_push", "", i, v))
ScrobbleChange == \E i \in Tracks, v \in EncoderValues :
    Step(on_scrobble_change(i, v), Op("on_scrobble_change", "", i, v))
Redraw == \E op \in DrawOps, i \in Tracks :
    Step(draw(op, i), Op(op, "", i, -1))
Disconnect ==
    Step(disconnect, Op("disconnect", "", -1, -1))
HostMute == \E i \in Tracks :
    Step(host_mute_change(i), Op("host_mute_change", "", i, -1))
HostSolo == \E i \in Tracks :
    Step(host_solo_change(i), Op("host_solo_change", "", i, -1))
HostParam == \E r \in OnRefs :
    Step(host_param_change(r), Op("host_param_change", r[3], r[1], -1))
HostDevices == \E i \in Tracks, d \in DeviceIds :
    \/ \E k \in 1 .. (Cardinality(DeviceIds) + 1) :
          Step(host_device_insert(i, d, k), Op("host_device_insert", d, i, k))
    \/ Step(host_device_remove(i, d), Op("host_device_remove", d, i, -1))

Next ==
    \/ NudgeBack \/ NudgeUp
    \/ CoarseTempo \/ CoarsePush \/ FineTempo \/ FinePush
    \/ ScrobblePush \/ ScrobbleChange
    \/ MuteButton \/ CueButton \/ TrackStopButton
    \/ EqKillButton \/ EqCutButton \/ VolumeFader \/ EqKnob
    \/ Redraw \/ Disconnect
    \/ HostMute \/ HostSolo \/ HostParam \/ HostDevices

Spec == Init /\ [][Next]_vars

\* ------------------------------------------------------------ one control
\* SpecMix moves one continuous control, drawn at the start, through all
\* of its 128 positions in any order, on a session with an EQ Three on
\* every track.

MixControls == ({"fader"} \cup Bands) \X Tracks

InitMix ==
    /\ Construct(MixHost)
    /\ probe \in MixControls

MixStep(handler, op) ==
    /\ handler
    /\ led' = LedAfter(led, sent')
    /\ last_op' = op
    /\ UNCHANGED << nevents, probe >>

MixFader == \E v \in 0 .. 127 :
    /\ probe[1] = "fader"
    /\ MixStep(on_volume_fader_move(probe[2], v),
               Op("on_volume_fader_move", "", probe[2], v))
MixKnob == \E v \in 0 .. 127 :
    /\ probe[1] \in Bands
    /\ MixStep(on_eq_knob_turn(probe[1], probe[2], v),
               Op("on_eq_knob_turn", probe[1], probe[2], v))

NextMix == MixFader \/ MixKnob

SpecMix == InitMix /\ [][NextMix]_vars

\* ------------------------------------------------------------ properties

IsNoteOn(status) == status \div 16 = 9
IsNoteOff(status) == status \div 16 = 8

\* the last message sent for the LED of element in color
LastMessage(element, color) == led[element_color_to_midi[element][color]]
HasMessage(element, color) == element_color_to_midi[element][color] \in DOMAIN led

cut_elements(band) ==
    CASE band = "hi" -> hi_eq_cut_elements
      [] band = "mid" -> mid_eq_cut_elements
      [] band = "low" -> low_eq_cut_elements

\* C1: a push (value 127) of a track's mute, cue, EQ kill or band cut
\* button flips the boolean bound to that button once, a release (value 0)
\* leaves it as it was, and in both cases every other boolean of every
\* track keeps its value.  (For the EQ buttons: when a parameter is bound.)
C1_Step ==
    LET op == last_op'.op
        i == last_op'.index
        v == last_op'.value
        flip(f, x) == [f EXCEPT ![x] = IF v = 127 THEN ~@ ELSE @]
        flip01(f, x) == [f EXCEPT ![x] = IF v = 127 THEN 1 - @ ELSE @]
    IN  /\ op = "on_mute_button_push" =>
              mute' = flip(mute, i) /\ solo' = solo /\ on_value' = on_value
        /\ op = "on_cue_button_push" =>
              solo' = flip(solo, i) /\ mute' = mute /\ on_value' = on_value
        /\ (op = "on_eq_kill_button_push" /\ eq3_device_on_params[i] # None) =>
              /\ on_value' = flip01(on_value, eq3_device_on_params[i])
              /\ mute' = mute /\ solo' = solo
        /\ (op = "on_eq_cut_button_push" /\ cut_params(last_op'.band)[i] # None) =>
              /\ on_value' = flip01(on_value, cut_params(last_op'.band)[i])
              /\ mute' = mute /\ solo' = solo

C1_TogglePushFlipsOnce == [][C1_Step]_vars

C1_Witness ==
    /\ last_op.op = "on_eq_cut_button_push"
    /\ last_op.value = 127
    /\ last_op.index = 2
    /\ cut_params(last_op.band)[2] # None
    /\ on_value[cut_params(last_op.band)[2]] = 0
    /\ \E i \in Tracks : mute[i]

\* C2: while the script is loaded, the last message sent for a track's
\* mute LED is a note-on iff the track is not muted, for its cue LED iff
\* the track is soloed, and for its EQ kill and band cut LEDs iff the
\* parameter bound to the button exists and is 1.0.
C2_LedReflectsHost ==
    connected =>
        \A i \in Tracks :
            /\ HasMessage(mute_elements[i + 1], MUTE_BUTTON_COLOR)
            /\ IsNoteOn(LastMessage(mute_elements[i + 1], MUTE_BUTTON_COLOR))
                  <=> ~mute[i]
            /\ HasMessage(cue_elements[i + 1], CUE_BUTTON_COLOR)
            /\ IsNoteOn(LastMessage(cue_elements[i + 1], CUE_BUTTON_COLOR))
                  <=> solo[i]
            /\ HasMessage(eq_kill_elements[i + 1], EQ_KILL_COLOR)
            /\ IsNoteOn(LastMessage(eq_kill_elements[i + 1], EQ_KILL_COLOR))
                  <=> (/\ eq3_device_on_params[i] # None
                       /\ on_value[eq3_device_on_params[i]] = 1)
            /\ \A b \in Bands :
                  /\ HasMessage(cut_elements(b)[i + 1], EQ_CUT_COLOR)
                  /\ IsNoteOn(LastMessage(cut_elements(b)[i + 1], EQ_CUT_COLOR))
                        <=> (/\ cut_params(b)[i] # None
                             /\ on_value[cut_params(b)[i]] = 1)

\* a push on an unmuted track has left it muted, its LED dimmed, after a
\* change of another track's solo made in the host
C2_Witness ==
    /\ connected
    /\ nevents = 2
    /\ last_op = Op("on_mute_button_push", "", 2, 127)
    /\ mute[2]
    /\ IsNoteOff(LastMessage(mute_elements[3], MUTE_BUTTON_COLOR))
    /\ solo[0]
    /\ IsNoteOn(LastMessage(cue_elements[1], CUE_BUTTON_COLOR))

\* C3: every message given to send_midi is (0x90 | 14, note, 127) or
\* (0x80 | 14, note, 127) with note an entry of the element-color table in
\* 0..127; for the track stop button it is the note-on (push) or note-off
\* (release) of that track's stop element in red.
C3_WireFormat ==
    /\ \A k \in DOMAIN sent :
          /\ Len(sent[k]) = 3
          /\ sent[k][1] \in {(9 * 16) + 14, (8 * 16) + 14}
          /\ sent[k][2] \in 0 .. 127
          /\ \E e \in DOMAIN element_color_to_midi, c \in Colors :
                element_color_to_midi[e][c] = sent[k][2]
          /\ sent[k][3] = 127
    /\ last_op.op = "on_track_stop_button_push" =>
          sent = << << IF last_op.value = 127 THEN (9 * 16) + 14 ELSE (8 * 16) + 14,
                       element_color_to_midi[track_stop_elements[last_op.index + 1]]["red"],
                       127 >> >>

C3_Witness ==
    /\ last_op = Op("on_track_stop_button_push", "", 3, 127)
    /\ sent = << << 158, 27, 127 >> >>
    /\ nevents = 2

\* C4: every element of the element-color table has a red, an orange and a
\* green note, the three are different, and each is in 0..127.
C4_ElementColors ==
    \A e \in DOMAIN element_color_to_midi :
        LET t == element_color_to_midi[e]
        IN  /\ Colors \subseteq DOMAIN t
            /\ \A c \in Colors : t[c] \in 0 .. 127
            /\ t["red"] # t["orange"] /\ t["red"] # t["green"] /\ t["orange"] # t["green"]

C4_Witness ==
    /\ Cardinality(DOMAIN element_color_to_midi) = 34
    /\ element_color_to_midi["top_encoder_4"] = [red |-> 55, orange |-> 91, green |-> 127]
    /\ element_color_to_midi["layer_button"] = [red |-> 12, orange |-> 16, green |-> 20]

\* no two arguments of f have the same value
Injective(f) == Cardinality({f[x] : x \in DOMAIN f}) = Cardinality(DOMAIN f)

\* C5 as claimed: the note table has 132 labels, is injective, and every
\* number is in 0..127.
C5_Original ==
    /\ Cardinality(DOMAIN note_to_midi) = 132
    /\ Injective(note_to_midi)
    /\ \A label \in DOMAIN note_to_midi : note_to_midi[label] \in 0 .. 127

\* C5: the note table has 132 labels and is injective; its numbers are
\* 0..131, and the four above 127 are those of g#9, a9, a#9 and b9.
C5_NoteTable ==
    /\ Cardinality(DOMAIN note_to_midi) = 132
    /\ Injective(note_to_midi)
    /\ {note_to_midi[label] : label \in DOMAIN note_to_midi} = 0 .. 131
    /\ {label \in DOMAIN note_to_midi : note_to_midi[label] > 127}
          = {"g#9", "a9", "a#9", "b9"}

C5_Witness ==
    /\ note_to_midi["c-1"] = 0
    /\ note_to_midi["g9"] = 127
    /\ note_to_midi["b9"] = 131

FaderMoved == last_op.op = "on_volume_fader_move"

KnobTurned ==
    /\ last_op.op = "on_eq_knob_turn"
    /\ gain_params(last_op.band)[last_op.index] # None

KnobGain == gain_value[gain_params(last_op.band)[last_op.index]]

\* C7 as claimed: a knob event with value 0 sets a bound gain parameter to
\* 0.0 and one with value 127 sets it to 1.0.
C7_Original ==
    KnobTurned =>
        /\ last_op.value = 0 => KnobGain = ZERO
        /\ last_op.value = 127 => KnobGain = ONE

\* the normalized position (value + 1)/128 lies in (0.45, 0.55]
InDeadZone(value) ==
    /\ 45 * 128 < 100 * (value + 1)
    /\ 100 * (value + 1) <= 55 * 128

\* C8: a knob event sets a bound gain parameter to the 0 dB constant
\* exactly when its normalized position is in the dead zone (0.45, 0.55].
C8_DeadZone ==
    KnobTurned => (KnobGain = NORMALIZED_ZERO_DB <=> InDeadZone(last_op.value))

C8_Witness ==
    /\ KnobTurned
    /\ last_op.value = 69
    /\ last_op.band = "mid"
    /\ KnobGain = NORMALIZED_ZERO_DB

\* the segment of the knob mapping a value falls in
Segment(value) ==
    IF 100 * (value + 1) <= 45 * 128 THEN "left"
    ELSE IF InDeadZone(value) THEN "dead zone"
    ELSE "right"

\* C9: of two fader events, the one with the greater value sets the
\* greater or equal volume; no fader event sets more than 0 dB, and value
\* 127 sets 0 dB.  Of two knob events in the same segment, the one with the
\* greater value sets the greater or equal gain.
C9_Step ==
    LET a == last_op.value
        b == last_op'.value
        i == last_op'.index
    IN  /\ last_op'.op = "on_volume_fader_move" =>
              /\ BigLeq(volume'[i], NORMALIZED_ZERO_DB)
              /\ b = 127 => volume'[i] = NORMALIZED_ZERO_DB
              /\ (last_op.op = "on_volume_fader_move" /\ a <= b) =>
                    BigLeq(volume[i], volume'[i])
        /\ (/\ last_op'.op = "on_eq_knob_turn"
            /\ last_op.op = "on_eq_knob_turn"
            /\ gain_params(last_op'.band)[i] # None
            /\ a <= b
            /\ Segment(a) = Segment(b)) =>
              BigLeq(gain_value[gain_params(last_op'.band)[i]],
                     gain_value'[gain_params(last_op'.band)[i]])

C9_Monotonic == [][C9_Step]_vars

C9_Witness ==
    /\ FaderMoved
    /\ last_op.value = 127
    /\ volume[last_op.index] = NORMALIZED_ZERO_DB

\* C10: a draw handler changes nothing in the script or in the host and
\* sends one message; run again with nothing changed it sends the same
\* message, and while the script is loaded that message is the one last
\* sent for that LED.
C10_Step ==
    last_op'.op \in DrawOps =>
        /\ adapterVars' = adapterVars
        /\ hostVars' = hostVars
        /\ Len(sent') = 1
        /\ last_op = last_op' => sent' = sent
        /\ connected => led' = led

C10_DrawIdempotent == [][C10_Step]_vars

C10_Witness ==
    /\ last_op.op = "draw_eq_kill"
    /\ nevents = 2
    /\ eq3_device_on_params[last_op.index] # None
    /\ Len(sent) = 1
    /\ IsNoteOn(sent[1][1])

\* msgs is one pass: a note-off for every element's note in color
NoteOffPass(msgs, color) ==
    /\ \A k \in DOMAIN msgs : IsNoteOff(msgs[k][1])
    /\ Len(msgs) = Cardinality(DOMAIN element_color_to_midi)
    /\ {msgs[k][2] : k \in DOMAIN msgs}
          = {element_color_to_midi[e][color] : e \in DOMAIN element_color_to_midi}

\* msgs begins with a pass of note-offs over every element in red, then one
\* in orange, then one in green
ThreePasses(msgs) ==
    LET n == Cardinality(DOMAIN element_color_to_midi)
    IN  /\ Len(msgs) >= 3 * n
        /\ NoteOffPass(SubSeq(msgs, 1, n), "red")
        /\ NoteOffPass(SubSeq(msgs, n + 1, 2 * n), "orange")
        /\ NoteOffPass(SubSeq(msgs, (2 * n) + 1, 3 * n), "green")

\* C11 as claimed: disconnect() sends a note-off for every element in red,
\* then in orange, then in green, and no event or host notification
\* delivered after disconnect() sends a note-on or changes the host.
C11_Step ==
    /\ last_op'.op = "disconnect" =>
          (ThreePasses(sent') /\ Len(sent') = 3 * Cardinality(DOMAIN element_color_to_midi))
    /\ ~connected =>
          /\ mute' = mute /\ solo' = solo /\ volume' = volume
          /\ gain_value' = gain_value /\ nudge_up' = nudge_up
          /\ nudge_down' = nudge_down /\ tempo' = tempo /\ position' = position
          /\ \A r \in OnRefs : OnTrack(r[1], r[2]) => on_value'[r] = on_value[r]
          /\ \A k \in DOMAIN sent' : ~IsNoteOn(sent'[k][1])

C11_Original == [][C11_Step]_vars

\* the parameter param_name of the first EQ Three on track index, or None
first_eq3_param(index, param_name) ==
    LET eq3 == find_eq3_device(index, devices[index])
    IN  IF eq3 # None THEN get_eq3_parameter(eq3, param_name) ELSE None

gain_name(band) ==
    CASE band = "hi" -> "GainHi" [] band = "mid" -> "GainMid" [] band = "low" -> "GainLo"

cut_name(band) ==
    CASE band = "hi" -> "HighOn" [] band = "mid" -> "MidOn" [] band = "low" -> "LowOn"

\* after the step, every binding of track index is the matching parameter
\* of the first EQ Three then on the track, or None
BindingsCurrentAfter(index) ==
    /\ eq3_devices'[index] = find_eq3_device(index, devices[index])'
    /\ eq3_device_on_params'[index] = first_eq3_param(index, "Device On")'
    /\ \A b \in Bands :
          /\ cut_params(b)'[index] = first_eq3_param(index, cut_name(b))'
          /\ gain_params(b)'[index] = first_eq3_param(index, gain_name(b))'

\* C12 as claimed: after a device-list change on track i all eight bindings
\* of track i are those of the first EQ Three now on the track, or None when
\* there is none; and a knob turn on a track without an EQ Three changes no
\* gain parameter.
C12_Step ==
    /\ last_op'.op \in {"host_device_insert", "host_device_remove"} =>
          \A i \in Tracks : i = last_op'.index => BindingsCurrentAfter(i)
    /\ (/\ last_op'.op = "on_eq_knob_turn"
        /\ find_eq3_device(last_op'.index, devices[last_op'.index]) = None) =>
          gain_value' = gain_value

C12_Original == [][C12_Step]_vars

\* C13 as claimed: with no parameter of the expected name on the track (no
\* EQ Three, or an EQ Three without it), an event on the track's kill
\* button, a cut button or a gain knob changes nothing in the host, and the
\* kill and cut buttons send a note-off for their element.
C13_Step ==
    LET op == last_op'.op
        i == last_op'.index
        b == last_op'.band
        dimmed(element, color) ==
            /\ sent' # << >>
            /\ sent'[Len(sent')] = << MIDI_NOTE_OFF_STATUS + MIDI_CHANNEL_NUM,
                                     element_color_to_midi[element][color], 127 >>
    IN  /\ (op = "on_eq_kill_button_push" /\ first_eq3_param(i, "Device On") = None) =>
              (hostVars' = hostVars /\ dimmed(eq_kill_elements[i + 1], EQ_KILL_COLOR))
        /\ (op = "on_eq_cut_button_push" /\ first_eq3_param(i, cut_name(b)) = None) =>
              (hostVars' = hostVars /\ dimmed(cut_elements(b)[i + 1], EQ_CUT_COLOR))
        /\ (op = "on_eq_knob_turn" /\ first_eq3_param(i, gain_name(b)) = None) =>
              hostVars' = hostVars

C13_Original == [][C13_Step]_vars

\* C14 as claimed: construction sends, before anything it draws, a note-off
\* for every element in red, then in orange, then in green.
C14_Original ==
    last_op.op = "__init__" => ThreePasses(sent)

TempoOps == {"on_coarse_tempo_change", "on_fine_tempo_change"}
TempoPushOps == {"on_coarse_encoder_push", "on_fine_encoder_push"}

\* C15: a tick of a tempo encoder changes the tempo by one step, up for
\* value 1 and down for value 127: 1.0 for the coarse encoder, 0.1 while
\* its push flag is set; 0.1 for the fine encoder, 0.01 while its push flag
\* is set.  A push event sets its own encoder's flag to (value = 127) and
\* leaves the tempo and the other flag alone; no other event changes the
\* tempo or a flag, so a flag is that of the encoder's last push event.
C15_Step ==
    LET op == last_op'.op
        v == last_op'.value
        signed(d) == IF v = 1 THEN d ELSE 0 - d
        flags == << coarse_encoder_is_pushed, fine_encoder_pushed >>
    IN  /\ op = "on_coarse_tempo_change" =>
              /\ tempo' = tempo + signed(IF coarse_encoder_is_pushed THEN 10 ELSE 100)
              /\ flags' = flags
        /\ op = "on_fine_tempo_change" =>
              /\ tempo' = tempo + signed(IF fine_encoder_pushed THEN 1 ELSE 10)
              /\ flags' = flags
        /\ op = "on_coarse_encoder_push" =>
              /\ coarse_encoder_is_pushed' = (v = 127)
              /\ fine_encoder_pushed' = fine_encoder_pushed
              /\ tempo' = tempo
        /\ op = "on_fine_encoder_push" =>
              /\ fine_encoder_pushed' = (v = 127)
              /\ coarse_encoder_is_pushed' = coarse_encoder_is_pushed
              /\ tempo' = tempo
        /\ op \notin (TempoOps \cup TempoPushOps) =>
              (tempo' = tempo /\ flags' = flags)

C15_TempoSteps == [][C15_Step]_vars

\* a left tick of the coarse encoder while the fine encoder is held: one
\* whole beat per minute down
C15_Witness ==
    /\ last_op = Op("on_coarse_tempo_change", "", -1, 127)
    /\ fine_encoder_pushed
    /\ ~coarse_encoder_is_pushed
    /\ tempo = 17450 - 100

\* the beats of a bar: "Moves the playback one bar" for the 4 beats of
\* on_scrobble_change
BeatsPerBar == 4

ScrobbleOps == {"on_scrobble_encoder_push", "on_scrobble_change"}

\* A scrobble step on track i moves the playing clip of track i by
\* unheld beats, or by 1 beat while the track's encoder is held.
ScrobbleStep(unheld) ==
    LET op == last_op'.op
        i == last_op'.index
        v == last_op'.value
        beats == IF scrobble_encoder_pushed[i] THEN 1 ELSE unheld
        moved == IF v = 127 THEN 0 - beats ELSE beats
    IN  /\ (op = "on_scrobble_change" /\ playing_slot_index[i] > -1) =>
              /\ position' = [position EXCEPT
                    ![<< i, playing_slot_index[i] >>] = @ + moved]
              /\ scrobble_encoder_pushed' = scrobble_encoder_pushed
        /\ (op = "on_scrobble_change" /\ ~(playing_slot_index[i] > -1)) =>
              (adapterVars' = adapterVars /\ hostVars' = hostVars)
        /\ op = "on_scrobble_encoder_push" =>
              /\ scrobble_encoder_pushed' =
                    [scrobble_encoder_pushed EXCEPT ![i] = (v = 127)]
              /\ position' = position
        /\ op \notin ScrobbleOps =>
              (position' = position /\ scrobble_encoder_pushed' = scrobble_encoder_pushed)

NudgeOps == {"on_nudge_up", "on_nudge_back"}

\* the nudge flags and their LEDs agree
NudgeLeds ==
    /\ nudge_up <=> (/\ HasMessage("exit_setup_button", "orange")
                     /\ IsNoteOn(LastMessage("exit_setup_button", "orange")))
    /\ nudge_down <=> (/\ HasMessage("layer_button", "orange")
                       /\ IsNoteOn(LastMessage("layer_button", "orange")))

\* C17: a nudge-up event sets nudge_up to (value = 127) and leaves
\* nudge_down alone, a nudge-back event does the same for nudge_down, and
\* no other event changes either flag; while the script is loaded, the last
\* message for 'exit_setup_button' (resp. 'layer_button') in orange is a
\* note-on iff nudge_up (resp. nudge_down) is true.
C17_Step ==
    LET op == last_op'.op
        v == last_op'.value
    IN  /\ op = "on_nudge_up" =>
              (nudge_up' = (v = 127) /\ nudge_down' = nudge_down)
        /\ op = "on_nudge_back" =>
              (nudge_down' = (v = 127) /\ nudge_up' = nudge_up)
        /\ op \notin NudgeOps =>
              (nudge_up' = nudge_up /\ nudge_down' = nudge_down)
        /\ (nevents = 0 /\ connected) => NudgeLeds
        /\ connected' => NudgeLeds'

C17_NudgeFlags == [][C17_Step]_vars

\* nudge-up pressed and still held when nudge-back is released
C17_Witness ==
    /\ last_op = Op("on_nudge_back", "", -1, 0)
    /\ nudge_up
    /\ ~nudge_down
    /\ IsNoteOn(LastMessage("exit_setup_button", "orange"))
    /\ IsNoteOff(LastMessage("layer_button", "orange"))

\* the on/off parameters the script has bound
BoundOnParams ==
    ({eq3_device_on_params[i] : i \in Tracks}
        \cup {cut_params(b)[i] : b \in Bands, i \in Tracks}) \ {None}

\* C18 as claimed: an on/off parameter carries one redraw listener of the
\* script while it is bound and none otherwise, and a change of a bound
\* parameter made in the host is followed by one LED message.
C18_Original ==
    /\ \A r \in OnRefs :
          value_listeners[r] = (IF r \in BoundOnParams THEN 1 ELSE 0)
    /\ (/\ last_op.op = "host_param_change"
        /\ \E r \in BoundOnParams : r[1] = last_op.index /\ r[3] = last_op.band) =>
          Len(sent) = 1

\* C19 as claimed: the first value above the dead zone sets a gain above
\* 0 dB by less than 0.15 / (0.45 * 128) = 1/384, and value 127 sets 1.0.
\* 1/384 is 33 * 2^23 units of 1 / (YScale * 2^23).
C19_Original ==
    KnobTurned =>
        /\ (InDeadZone(last_op.value - 1) /\ ~InDeadZone(last_op.value)) =>
              /\ BigLess(NORMALIZED_ZERO_DB, KnobGain)
              /\ BigLess(KnobGain,
                         BigAdd(NORMALIZED_ZERO_DB, << (YScale \div 384) * (2^11), 0 >>))
        /\ last_op.value = 127 => KnobGain = ONE

=============================================================================
